---- MODULE Spec2Model ----
(***************************************************************************)
(* Model of src/main.rs of polish-airports: the coordinate parser          *)
(* (Coordinate::from_str), the decimal converter (to_decimal_degrees), the *)
(* position parser (Position::from_str) and the driver loop of main.       *)
(*                                                                         *)
(* A string is a sequence of one-character strings.  Every character of    *)
(* the model is ASCII, so Rust's byte indices and character indices        *)
(* coincide.  An f32 is modelled exactly, as the rational n / 10^d; the    *)
(* rounding of f32 arithmetic is not modelled.                             *)
(* The reading of the document and the csv writer are outside the model:   *)
(* main starts from the Airfield elements and every row is accepted.       *)
(***************************************************************************)
EXTENDS Integers, Sequences, FiniteSets, TLC

VARIABLES
    op,       \* which function is applied to s: "coordinate" or "position"
    s,        \* the &str argument of the from_str under study
    coord,    \* outcome of Coordinate::from_str(s), "none" before the call
    decimal,  \* outcome of to_decimal_degrees on the parsed Coordinate
    pos,      \* outcome of Position::from_str(s), "none" before the call
    records,  \* main: the Airfield elements of the document, in document order
    idx,      \* main: 1-based index of the element the for loop visits next
    rows,     \* main: the waypoints handed to writer.serialize, in call order
    status    \* main: "idle", "running", "done" (Ok(())) or "panicked"

vars == <<op, s, coord, decimal, pos, records, idx, rows, status>>

\* ------------------------------------------------------------------ bounds

\* largest degrees value of a generated 3-digit (E/W) degrees field
MaxLonDeg == 180
\* largest degrees value of a generated 2-digit (N/S) degrees field
MaxLatDeg == 90
\* largest number of Airfield elements in a generated document
MaxRecords == 3

\* -------------------------------------------------------------- characters

Digits == {"0", "1", "2", "3", "4", "5", "6", "7", "8", "9"}

DigitVal(c) ==
    CASE c = "0" -> 0 [] c = "1" -> 1 [] c = "2" -> 2 [] c = "3" -> 3
      [] c = "4" -> 4 [] c = "5" -> 5 [] c = "6" -> 6 [] c = "7" -> 7
      [] c = "8" -> 8 [] c = "9" -> 9

DigitChar(n) ==
    CASE n = 0 -> "0" [] n = 1 -> "1" [] n = 2 -> "2" [] n = 3 -> "3"
      [] n = 4 -> "4" [] n = 5 -> "5" [] n = 6 -> "6" [] n = 7 -> "7"
      [] n = 8 -> "8" [] n = 9 -> "9"

AllDigits(t) == \A i \in 1..Len(t) : t[i] \in Digits

RECURSIVE DigitsValue(_)
DigitsValue(t) ==
    IF t = <<>> THEN 0
    ELSE 10 * DigitsValue(SubSeq(t, 1, Len(t) - 1)) + DigitVal(t[Len(t)])

RECURSIVE Pow10(_)
Pow10(d) == IF d = 0 THEN 1 ELSE 10 * Pow10(d - 1)

\* Rust's &t[a..b]: bytes a (inclusive) to b (exclusive), 0-indexed.  The
\* slice panics unless a <= b <= t.len().
SliceInBounds(t, a, b) == a <= b /\ b <= Len(t)
Slice(t, a, b) == SubSeq(t, a + 1, b)

\* ------------------------------------------------------ str::parse::<T>()

ParseFail == [ok |-> FALSE]

\* str::parse::<i32>(): one optional '+' or '-', then one or more decimal
\* digits.  The caller passes a slice of 2 or 3 bytes, so the value is
\* within -99..999 and the range check of i32 never fails.
ParseI32(t) ==
    LET signed == Len(t) > 0 /\ t[1] \in {"+", "-"}
        body   == IF signed THEN Tail(t) ELSE t
        neg    == signed /\ t[1] = "-"
        mag    == DigitsValue(body)
    IN  IF body = <<>> \/ ~AllDigits(body) THEN ParseFail
        ELSE [ok |-> TRUE, val |-> IF neg THEN -mag ELSE mag]

\* str::parse::<u32>(): one optional '+', then one or more decimal digits.
\* A '-' is an invalid digit.  The caller passes a slice of 2 bytes, so the
\* range check of u32 never fails.
ParseU32(t) ==
    LET signed == Len(t) > 0 /\ t[1] = "+"
        body   == IF signed THEN Tail(t) ELSE t
        mag    == DigitsValue(body)
    IN  IF body = <<>> \/ ~AllDigits(body) THEN ParseFail
        ELSE [ok |-> TRUE, val |-> mag]

\* str::parse::<f32>() on the decimal notation without exponent: one
\* optional '+' or '-', digits with at most one '.', at least one digit.
\* The value is n / 10^d.  (The exponent, "inf" and "nan" notations need the
\* characters e, i, n, f, a, which no generated numeric field holds.)
ParseF32(t) ==
    LET signed == Len(t) > 0 /\ t[1] \in {"+", "-"}
        body   == IF signed THEN Tail(t) ELSE t
        neg    == signed /\ t[1] = "-"
        dots   == {i \in 1..Len(body) : body[i] = "."}
        digs   == SelectSeq(body, LAMBDA c : c # ".")
        frac   == IF dots = {} THEN 0
                  ELSE Len(body) - (CHOOSE i \in dots : TRUE)
    IN  IF Cardinality(dots) > 1 \/ digs = <<>> \/ ~AllDigits(digs)
        THEN ParseFail
        ELSE [ok |-> TRUE,
              val |-> [n |-> IF neg THEN -DigitsValue(digs) ELSE DigitsValue(digs),
                       d |-> frac]]

\* --------------------------------------------------- Coordinate::from_str

Hemispheres == {"N", "E", "W", "S"}

Ok(v) == [kind |-> "Ok", val |-> v]
Err == [kind |-> "Err"]
Panic == [kind |-> "Panic"]
NotCalled == [kind |-> "none"]

\* s.chars().nth(0).unwrap_or('N')
Nth0(t) == IF Len(t) = 0 THEN "N" ELSE t[1]

SignOf(nth) == IF nth \in {"N", "E"} THEN 1 ELSE -1

\* Offset with the widening for E and W lost: every degrees field 2 digits
OffsetNarrow(nth) == 0

Offset(nth) == IF nth \in {"E", "W"} THEN 1 ELSE 0

CoordinateFromStr(t) ==
    LET nth    == Nth0(t)
        sign   == SignOf(nth)
        offset == Offset(nth)
    IN  IF nth \notin Hemispheres THEN Err
        ELSE IF ~SliceInBounds(t, 1, 3 + offset) THEN Panic
        ELSE LET deg == ParseI32(Slice(t, 1, 3 + offset)) IN
        IF ~deg.ok THEN Err
        ELSE IF ~SliceInBounds(t, 3 + offset, 5 + offset) THEN Panic
        ELSE LET min == ParseU32(Slice(t, 3 + offset, 5 + offset)) IN
        IF ~min.ok THEN Err
        ELSE LET sec == ParseF32(Slice(t, 5 + offset, Len(t))) IN
        IF ~sec.ok THEN Err
        ELSE Ok([degrees |-> sign * deg.val,
                 minutes |-> min.val,
                 seconds |-> sec.val])

\* ------------------------------------------ Coordinate::to_decimal_degrees

\* degrees + minutes / 60 + seconds / 3600 as the fraction num / den
ToDecimalDegrees(c) ==
    LET scale == Pow10(c.seconds.d) IN
    [num |-> c.degrees * 3600 * scale + c.minutes * 60 * scale + c.seconds.n,
     den |-> 3600 * scale]

\* ----------------------------------------------------- Position::from_str

\* str::split_once(" "): the parts before and after the first space
HasSpace(t) == \E i \in 1..Len(t) : t[i] = " "

FirstSpace(t) ==
    CHOOSE i \in 1..Len(t) : t[i] = " " /\ \A j \in 1..(i - 1) : t[j] # " "

SplitOnce(t) ==
    IF ~HasSpace(t) THEN [some |-> FALSE]
    ELSE [some |-> TRUE,
          lat  |-> SubSeq(t, 1, FirstSpace(t) - 1),
          long |-> SubSeq(t, FirstSpace(t) + 1, Len(t))]

\* PositionFromStr with the two Coordinates exchanged
PositionFromStrSwapped(t) ==
    LET parts == SplitOnce(t) IN
    IF ~parts.some THEN Panic
    ELSE LET lat == CoordinateFromStr(parts.lat) IN
    IF lat.kind # "Ok" THEN Panic
    ELSE LET lon == CoordinateFromStr(parts.long) IN
    IF lon.kind # "Ok" THEN Panic
    ELSE Ok([lat |-> lon.val, lon |-> lat.val])

\* Both unwraps abort the call; no path returns Err(ParsePositionError).
PositionFromStr(t) ==
    LET parts == SplitOnce(t) IN
    IF ~parts.some THEN Panic
    ELSE LET lat == CoordinateFromStr(parts.lat) IN
    IF lat.kind # "Ok" THEN Panic
    ELSE LET lon == CoordinateFromStr(parts.long) IN
    IF lon.kind # "Ok" THEN Panic
    ELSE Ok([lat |-> lat.val, lon |-> lon.val])

\* ------------------------------------------------------------ the inputs

Pad2(d) == <<DigitChar(d \div 10), DigitChar(d % 10)>>
Pad3(d) == <<DigitChar(d \div 100), DigitChar((d \div 10) % 10), DigitChar(d % 10)>>

\* first characters: the four hemisphere letters and one other letter
Letters == Hemispheres \cup {"X"}

\* degrees fields: every 3-digit field 000..MaxLonDeg, every 2-digit field
\* 00..MaxLatDeg, and fields that are signed or not numeric
DegFields ==
    {Pad3(d) : d \in 0..MaxLonDeg} \cup {Pad2(d) : d \in 0..MaxLatDeg}
    \cup {<<"-", "5">>, <<"+", "5">>, <<"x", "5">>, <<"-", "1", "7">>}

MinFields ==
    {<<"0", "0">>, <<"0", "7">>, <<"3", "0">>, <<"4", "5">>,
     <<"+", "5">>, <<"-", "5">>, <<"x", "0">>}

SecFields ==
    {<<"0", "0">>, <<"3", "0">>, <<"0", "7", ".", "5">>,
     <<"-", "1">>, <<"x">>, <<>>}

FullTokens ==
    {<<l>> \o d \o m \o sc : l \in Letters, d \in DegFields,
                             m \in MinFields, sc \in SecFields}

Prefixes(t) == {SubSeq(t, 1, n) : n \in 0..Len(t)}

\* tokens cut short at every length, the empty token included
ShortTokens ==
    Prefixes(<<"N", "5", "2", "3", "0", "0", "0">>)
    \cup Prefixes(<<"W", "0", "1", "7", "4", "5", "3", "0">>)
    \cup Prefixes(<<"S", "x", "x", "3", "0", "0", "0">>)
    \cup Prefixes(<<"X", "5", "2", "3", "0", "0", "0">>)

CoordInputs == FullTokens \cup ShortTokens

\* the sub-tokens of the generated position strings
PosParts ==
    {<<"N", "5", "2", "3", "0", "0", "0">>,
     <<"S", "0", "0", "3", "0", "0", "0">>,
     <<"E", "0", "1", "7", "4", "5", "3", "0">>,
     <<"W", "1", "8", "0", "0", "0", "0", "0">>,
     <<"X", "5", "2", "3", "0", "0", "0">>,
     <<"N", "-", "5", "3", "0", "0", "0">>,
     <<"E", "0", "1", "7", "4", "5", "x">>,
     <<"N", "5", "2", "3">>,
     <<>>}

\* position strings: two sub-tokens around one space, a third sub-token
\* behind a second space, and strings without any space
PosInputs ==
    {a \o <<" ">> \o b : a, b \in PosParts}
    \cup {a \o <<" ">> \o b \o <<" ">> \o a : a, b \in PosParts}
    \cup PosParts

\* -------------------------------------------- the functions, one at a time

InitParse ==
    /\ op \in {"coordinate", "position"}
    /\ s \in (IF op = "coordinate" THEN CoordInputs ELSE PosInputs)
    /\ coord = NotCalled
    /\ decimal = NotCalled
    /\ pos = NotCalled
    /\ records = <<>>
    /\ idx = 1
    /\ rows = <<>>
    /\ status = "idle"

CallCoordinateFromStr ==
    /\ op = "coordinate"
    /\ coord.kind = "none"
    /\ coord' = CoordinateFromStr(s)
    /\ UNCHANGED <<op, s, decimal, pos, records, idx, rows, status>>

CallToDecimalDegrees ==
    /\ coord.kind = "Ok"
    /\ decimal.kind = "none"
    /\ decimal' = Ok(ToDecimalDegrees(coord.val))
    /\ UNCHANGED <<op, s, coord, pos, records, idx, rows, status>>

CallPositionFromStr ==
    /\ op = "position"
    /\ pos.kind = "none"
    /\ pos' = PositionFromStr(s)
    /\ UNCHANGED <<op, s, coord, decimal, records, idx, rows, status>>

NextParse ==
    \/ CallCoordinateFromStr
    \/ CallToDecimalDegrees
    \/ CallPositionFromStr

Spec == InitParse /\ [][NextParse]_vars

\* ------------------------------------------------ Waypoint::from_position

None == [some |-> FALSE]
Some(v) == [some |-> TRUE, val |-> v]

FromPosition(p, name, elevation) ==
    [waypoint_type        |-> "Airstrip",
     name                 |-> name,
     ident                |-> name,
     latitude             |-> ToDecimalDegrees(p.lat),
     longitude            |-> ToDecimalDegrees(p.lon),
     elevation            |-> elevation,
     magnetic_declination |-> None,
     tags                 |-> None,
     description          |-> None,
     region               |-> Some("EP"),
     visible_from         |-> None,
     last_edit            |-> None,
     import_filename      |-> Some("skydemon_PL_missing.airfields.xml")]

\* ------------------------------------------------------------------- main

\* ElevationOf with a default of zero for a value that does not parse
ElevationOfDefault(attr) ==
    IF ~attr.some THEN None
    ELSE LET f == ParseF32(attr.val) IN
         IF f.ok THEN Some(f.val) ELSE Some([n |-> 0, d |-> 0])

\* the match on airport.attribute("Elevation"): a missing attribute and a
\* value that does not parse as f32 both give None
ElevationOf(attr) ==
    IF ~attr.some THEN None
    ELSE LET f == ParseF32(attr.val) IN
         IF f.ok THEN Some(f.val) ELSE None

\* One pass of the loop body up to the waypoint: the unwraps of the Name and
\* Position attributes and of Position::from_str abort the process.
AirportToWaypoint(airport) ==
    IF ~airport.name.some THEN Panic
    ELSE IF ~airport.position.some THEN Panic
    ELSE LET elevation == ElevationOf(airport.elevation)
             position  == PositionFromStr(airport.position.val)
         IN  IF position.kind # "Ok" THEN Panic
             ELSE Ok(FromPosition(position.val, airport.name.val, elevation))

\* Position attributes the generated documents hold
GoodPositions ==
    {<<"N", "5", "2", "3", "0", "0", "0", " ",
       "E", "0", "1", "7", "4", "5", "3", "0">>,
     <<"S", "0", "0", "3", "0", "0", "0", " ",
       "W", "1", "8", "0", "0", "0", "0", "0">>}

BadPositions ==
    {<<"X", "5", "2", "3", "0", "0", "0", " ",
       "E", "0", "1", "7", "4", "5", "3", "0">>,
     <<"N", "5", "2", "3", "0", "0", "0">>,
     <<"N", "5", "2", "3", " ",
       "E", "0", "1", "7", "4", "5", "3", "0">>}

\* Elevation attributes: missing, numeric, not numeric
Elevations == {None, Some(<<"1", "2", "0">>), Some(<<"1", "2", "x">>)}

\* the Airfield elements a generated document is made of
Airfields ==
    {[name |-> Some("EPAA"), position |-> Some(p), elevation |-> e] :
        p \in GoodPositions, e \in Elevations}
    \cup {[name |-> Some("EPBB"), position |-> Some(p), elevation |-> e] :
        p \in BadPositions, e \in {None, Some(<<"1", "2", "x">>)}}
    \cup {[name |-> None, position |-> Some(p), elevation |-> None] :
        p \in GoodPositions}
    \cup {[name |-> Some("EPCC"), position |-> None, elevation |-> None]}

Documents ==
    UNION {[1..n -> Airfields] : n \in 0..MaxRecords}

InitMain ==
    /\ op = "main"
    /\ s = <<>>
    /\ coord = NotCalled
    /\ decimal = NotCalled
    /\ pos = NotCalled
    /\ records \in Documents
    /\ idx = 1
    /\ rows = <<>>
    /\ status = "running"

\* MainLoopBody that skips a record it cannot convert and goes on
MainLoopBodySkip ==
    /\ status = "running"
    /\ idx <= Len(records)
    /\ LET waypoint == AirportToWaypoint(records[idx]) IN
       IF waypoint.kind = "Ok"
       THEN rows' = Append(rows, waypoint.val)
       ELSE rows' = rows
    /\ idx' = idx + 1
    /\ UNCHANGED <<op, s, coord, decimal, pos, records, status>>

\* the body of `for airport in airports`, lines 137-152.  rows records the
\* waypoint handed to writer.serialize; the csv writer, a collaborator
\* outside the repository, is taken to accept it.
MainLoopBody ==
    /\ status = "running"
    /\ idx <= Len(records)
    /\ LET waypoint == AirportToWaypoint(records[idx]) IN
       IF waypoint.kind = "Ok"
       THEN /\ rows' = Append(rows, waypoint.val)
            /\ idx' = idx + 1
            /\ status' = status
       ELSE /\ status' = "panicked"
            /\ UNCHANGED <<rows, idx>>
    /\ UNCHANGED <<op, s, coord, decimal, pos, records>>

\* the iterator is exhausted: main returns Ok(())
MainReturn ==
    /\ status = "running"
    /\ idx > Len(records)
    /\ status' = "done"
    /\ UNCHANGED <<op, s, coord, decimal, pos, records, idx, rows>>

NextMain ==
    \/ MainLoopBody
    \/ MainReturn

SpecMain == InitMain /\ [][NextMain]_vars

\* =================================================================== claims
\* What the claims say of a token, read off the token's characters by the
\* positions the claims give (1-indexed here).

DegWidth(t) == IF t[1] \in {"E", "W"} THEN 3 ELSE 2
DegField(t) == SubSeq(t, 2, 1 + DegWidth(t))
MinField(t) == SubSeq(t, 2 + DegWidth(t), 3 + DegWidth(t))
SecField(t) == SubSeq(t, 4 + DegWidth(t), Len(t))
HemisphereSign(t) == IF t[1] \in {"S", "W"} THEN -1 ELSE 1

\* an unsigned decimal number: digits, at most one '.', a leading digit
UnsignedDecimal(f) ==
    /\ f # <<>>
    /\ f[1] \in Digits
    /\ \A i \in 1..Len(f) : f[i] \in Digits \cup {"."}
    /\ Cardinality({i \in 1..Len(f) : f[i] = "."}) <= 1

FracDigits(f) ==
    IF \E i \in 1..Len(f) : f[i] = "."
    THEN Len(f) - (CHOOSE i \in 1..Len(f) : f[i] = ".")
    ELSE 0

\* the seconds field as the integer sec * 10^FracDigits
SecScaled(f) == DigitsValue(SelectSeq(f, LAMBDA c : c # "."))

\* a hemisphere letter, a degrees field of the letter's width, a 2-digit
\* minutes field and a seconds field, all numeric and unsigned
ValidToken(t) ==
    /\ Len(t) >= 4 + 2
    /\ t[1] \in Hemispheres
    /\ Len(t) >= 4 + DegWidth(t)
    /\ AllDigits(DegField(t))
    /\ AllDigits(MinField(t))
    /\ UnsignedDecimal(SecField(t))

\* sign * (deg + min/60 + sec/3600) of a valid token, as a fraction
SignedSum(t) ==
    LET scale == Pow10(FracDigits(SecField(t))) IN
    [num |-> HemisphereSign(t) *
             (DigitsValue(DegField(t)) * 3600 * scale
              + DigitsValue(MinField(t)) * 60 * scale
              + SecScaled(SecField(t))),
     den |-> 3600 * scale]

Abs(x) == IF x < 0 THEN -x ELSE x

\* C1: for every valid token, parse_coordinate followed by to_decimal_degrees
\* yields sign * (deg + min/60 + sec/3600), sign -1 for S and W.
C1_DecimalIsSignedSum ==
    (op = "coordinate" /\ ValidToken(s) /\ coord.kind # "none") =>
        /\ coord.kind = "Ok"
        /\ decimal.kind = "Ok" => decimal.val = SignedSum(s)

\* C2: an accepted S or W token whose degrees field is all zeros and whose
\* minutes or seconds are not zero converts to a strictly negative decimal.
C2_ZeroDegreesKeepSign ==
    (/\ op = "coordinate"
     /\ coord.kind = "Ok"
     /\ decimal.kind = "Ok"
     /\ s[1] \in {"S", "W"}
     /\ \A i \in 1..DegWidth(s) : s[1 + i] = "0"
     /\ (coord.val.minutes # 0 \/ coord.val.seconds.n # 0))
    => decimal.val.num < 0

\* a field of the token lies beyond its end or does not parse as a number
FieldFails(t) ==
    \/ Len(t) < 4 + DegWidth(t)
    \/ ~ParseI32(DegField(t)).ok
    \/ ~ParseU32(MinField(t)).ok
    \/ ~ParseF32(SecField(t)).ok

\* C3: on a token that starts with N, E, W or S and has a field that fails
\* to parse (not numeric, or beyond the end of the token), parse_coordinate
\* returns the coordinate-parse error: it does not abort, it returns no Angle.
C3_FieldFailureIsErr ==
    (/\ op = "coordinate"
     /\ coord.kind # "none"
     /\ s # <<>>
     /\ s[1] \in Hemispheres
     /\ FieldFails(s))
    => coord.kind = "Err"

\* C4: on a token whose leading character is none of N, E, W, S (an empty
\* token has none), parse_coordinate returns the coordinate-parse error; no
\* hemisphere is assumed in its place.
C4_NoDefaultHemisphere ==
    (/\ op = "coordinate"
     /\ coord.kind # "none"
     /\ (s = <<>> \/ s[1] \notin Hemispheres))
    => coord.kind = "Err"

\* a position string parse_position has to reject: no space, or a sub-token
\* that parse_coordinate does not accept
PositionRejected(t) ==
    \/ ~HasSpace(t)
    \/ CoordinateFromStr(SubSeq(t, 1, FirstSpace(t) - 1)).kind # "Ok"
    \/ CoordinateFromStr(SubSeq(t, FirstSpace(t) + 1, Len(t))).kind # "Ok"

\* C5: on a position string without a space, or with a sub-token that
\* parse_coordinate rejects, parse_position returns a PositionFormatError:
\* an error result, not an abort inside it.
C5_PositionFailureIsErr ==
    (op = "position" /\ pos.kind # "none" /\ PositionRejected(s))
    => pos.kind = "Err"

\* C6: in every Angle parse_coordinate returns, degrees is >= 0 for N and E
\* and <= 0 for S and W, and minutes and seconds are not negative.
C6_AngleSigns ==
    (op = "coordinate" /\ coord.kind = "Ok") =>
        /\ s[1] \in {"N", "E"} => coord.val.degrees >= 0
        /\ s[1] \in {"S", "W"} => coord.val.degrees <= 0
        /\ coord.val.minutes >= 0
        /\ coord.val.seconds.n >= 0

\* an E/W token with a 3-digit degrees field up to MaxLonDeg, or an N/S token
\* with a 2-digit degrees field up to MaxLatDeg
InRangeToken(t) ==
    /\ ValidToken(t)
    /\ DigitsValue(DegField(t)) <=
          (IF t[1] \in {"E", "W"} THEN MaxLonDeg ELSE MaxLatDeg)

\* C8: the degrees field is read at its full, hemisphere-dependent width:
\* for every in-range token the absolute value of the parsed degrees is the
\* value of the whole degrees field, and minutes and seconds are the values
\* of the two characters after it and of the rest of the token.
C8_FullWidthDegrees ==
    (op = "coordinate" /\ coord.kind # "none" /\ InRangeToken(s)) =>
        /\ coord.kind = "Ok"
        /\ Abs(coord.val.degrees) = DigitsValue(DegField(s))
        /\ coord.val.minutes = DigitsValue(MinField(s))
        /\ coord.val.seconds = [n |-> SecScaled(SecField(s)),
                                d |-> FracDigits(SecField(s))]

\* C8 witness: a W token whose 3-digit degrees field holds MaxLonDeg was
\* parsed, with minutes and seconds that are not both zero.
C8_Witness ==
    /\ op = "coordinate"
    /\ coord.kind = "Ok"
    /\ s[1] = "W"
    /\ InRangeToken(s)
    /\ coord.val.degrees = -MaxLonDeg
    /\ coord.val.minutes # 0
    /\ coord.val.seconds.d > 0

\* C9 as stated: in every Position returned, the latitude comes from an N/S
\* token and the longitude from an E/W token.
C9_AxisLetters ==
    (op = "position" /\ pos.kind = "Ok") =>
        /\ s[1] \in {"N", "S"}
        /\ s[FirstSpace(s) + 1] \in {"E", "W"}

\* C9 as amended: in every Position returned, the latitude is the Angle of
\* the sub-token before the first space and the longitude the Angle of the
\* sub-token after it, and each sub-token starts with one of N, E, W, S.
C9_AxisByOrder ==
    (op = "position" /\ pos.kind = "Ok") =>
        /\ HasSpace(s)
        /\ LET a == SubSeq(s, 1, FirstSpace(s) - 1)
               b == SubSeq(s, FirstSpace(s) + 1, Len(s))
           IN  /\ a # <<>> /\ a[1] \in Hemispheres
               /\ b # <<>> /\ b[1] \in Hemispheres
               /\ CoordinateFromStr(a) = Ok(pos.val.lat)
               /\ CoordinateFromStr(b) = Ok(pos.val.lon)

\* C9 witness: a Position was returned whose latitude comes from an E/W token
\* and whose longitude comes from an N/S token.
C9_Witness ==
    /\ op = "position"
    /\ pos.kind = "Ok"
    /\ s[1] \in {"E", "W"}
    /\ s[FirstSpace(s) + 1] \in {"N", "S"}
    /\ pos.val.lat # pos.val.lon

\* ------------------------------------------------------- claims about main

\* the record's position string is malformed: parse_position gives no Position
Malformed(r) ==
    r.position.some /\ PositionFromStr(r.position.val).kind # "Ok"

\* the record cannot be converted: no Name, no Position, or a malformed one
Unusable(r) == ~r.name.some \/ ~r.position.some \/ Malformed(r)

\* the record's Elevation attribute is present and is not a number
BadElevation(r) == r.elevation.some /\ ~ParseF32(r.elevation.val).ok

\* the conversion of a usable record: name and ident from Name, the two
\* decimals from Position, the elevation when it is a number
Conversion(r) ==
    LET p == PositionFromStr(r.position.val).val
        e == IF r.elevation.some /\ ParseF32(r.elevation.val).ok
             THEN Some(ParseF32(r.elevation.val).val)
             ELSE None
    IN  FromPosition(p, r.name.val, e)

FirstMalformed ==
    IF \E i \in 1..Len(records) : Malformed(records[i])
    THEN CHOOSE i \in 1..Len(records) :
            /\ Malformed(records[i])
            /\ \A j \in 1..(i - 1) : ~Malformed(records[j])
    ELSE Len(records) + 1

FirstUnusable ==
    IF \E i \in 1..Len(records) : Unusable(records[i])
    THEN CHOOSE i \in 1..Len(records) :
            /\ Unusable(records[i])
            /\ \A j \in 1..(i - 1) : ~Unusable(records[j])
    ELSE Len(records) + 1

\* the rows handed to the writer are the conversions of records 1..k, in order
RowsAreFirst(k) ==
    /\ Len(rows) = k
    /\ \A i \in 1..k : rows[i] = Conversion(records[i])

C10_BadElevationIsAbsent ==
    /\ \A i \in 1..Len(records) :
          (BadElevation(records[i]) /\ ~Unusable(records[i])) =>
              /\ ~(status = "panicked" /\ idx = i)
              /\ i < idx =>
                    /\ i <= Len(rows)
                    /\ rows[i].elevation = None
                    /\ rows[i] = Conversion([records[i] EXCEPT !.elevation = None])
    /\ status = "panicked" => Unusable(records[idx])

\* C10 witness: the row of a record with a non-numeric Elevation was handed
\* to the writer, and the run went on to its end.
C10_Witness ==
    /\ status = "done"
    /\ \E i \in 1..Len(rows) :
          BadElevation(records[i]) /\ rows[i].elevation = None

====
